---------------------------- MODULE Spec2Model ----------------------------
(***************************************************************************)
(* A model of the 6502 (Ricoh 2A03) interpreter core of src/src/cpu.cpp:   *)
(* the register file, the status flags, the addressing modes, the          *)
(* instruction handlers, the opcode table, Tick and Reset.                 *)
(*                                                                         *)
(* The CPU is a record  [a, x, y, s, p, pc, cycles, mem,                   *)
(* currentPageCrossPenalty];  every C++ member function is an operator     *)
(* from a CPU record to a CPU record (addressing modes and Fetch also      *)
(* return a value).  u8 values are kept modulo 2^8, u16 values modulo 2^16.*)
(***************************************************************************)
EXTENDS Integers, FiniteSets, Sequences, TLC

VARIABLES a, x, y, s, p, pc, cycles, mem, currentPageCrossPenalty, last, steps

vars == <<a, x, y, s, p, pc, cycles, mem, currentPageCrossPenalty, last, steps>>

(***************************************************************************)
(* Bounds of the model.                                                    *)
(***************************************************************************)
\* The number of Tick / Reset calls explored after a seeded start state.
MaxSteps == 2

\* SpecBoot: the length of the program at the reset vector, and the number of
\* Ticks explored after Reset.
BootLength == 3
MaxBootTicks == 3

\* SpecALU: the number of Ticks explored after the seeded start state.
MaxAluTicks == 1

(***************************************************************************)
(* Fixed-width integers and the bitwise operators of C++.                  *)
(***************************************************************************)
Byte == 0 .. 255
Word == 0 .. 65535

\* Conversion to u8 / u16 (value modulo 2^8 / 2^16, also of a negative int).
U8(v) == v % 256
U16(v) == v % 65536

\* v & w for two values 0 .. 65535.
BitAnd(v, w) ==
    LET bit(i) == ((v \div (2 ^ i)) % 2) * ((w \div (2 ^ i)) % 2) * (2 ^ i)
    IN  bit(0) + bit(1) + bit(2) + bit(3) + bit(4) + bit(5) + bit(6) + bit(7)
        + bit(8) + bit(9) + bit(10) + bit(11) + bit(12) + bit(13) + bit(14)
        + bit(15)

\* v | w for two values 0 .. 65535.
BitOr(v, w) == v + w - BitAnd(v, w)

\* v << 8 for a byte v.
Shl8(v) == v * 256

(***************************************************************************)
(* Status flags: the bit masks of P.                                       *)
(***************************************************************************)
Carry == \h01
Zero == \h02
InterruptDisable == \h04
Decimal == \h08
Break == \h10
Unused == \h20
Overflow == \h40
Negative == \h80

(***************************************************************************)
(* The bus in flat-memory mode: one byte per 16-bit address.  mem holds    *)
(* the bytes written so far; an address never written holds the byte the   *)
(* memory had at start, InitialRam.                                        *)
(***************************************************************************)
InitialRam(address) == ((address % 256) + 3 * (address \div 256)) % 256

BusRead(m, address) ==
    IF address \in DOMAIN m THEN m[address] ELSE InitialRam(address)

BusWrite(m, address, data) ==
    [k \in (DOMAIN m) \cup {address} |-> IF k = address THEN data ELSE m[k]]

\* CPU::Read, CPU::Write: pass reads and writes to the bus.
Read(cpu, address) == BusRead(cpu.mem, address)

Write(cpu, address, data) == [cpu EXCEPT !.mem = BusWrite(cpu.mem, address, data)]

\* CPU::Fetch: Read( _pc++ ).
Fetch(cpu) ==
    [cpu |-> [cpu EXCEPT !.pc = U16(cpu.pc + 1)], value |-> Read(cpu, cpu.pc)]

(***************************************************************************)
(* Flag helpers.                                                           *)
(***************************************************************************)
\* _p |= flag
\* Mutant of SetFlags: the mask is assigned ( _p = flag ), not OR-ed in.
SetFlags_Assigns(cpu, flag) == [cpu EXCEPT !.p = flag]

SetFlags(cpu, flag) == [cpu EXCEPT !.p = BitOr(cpu.p, flag)]

\* Mutant of ClearFlags: the complement is missing ( _p &= flag ).
ClearFlags_NoComplement(cpu, flag) == [cpu EXCEPT !.p = BitAnd(cpu.p, flag)]

\* _p &= ~flag   (~flag is an int; the low 8 bits of it are 255 - flag)
ClearFlags(cpu, flag) == [cpu EXCEPT !.p = BitAnd(cpu.p, 255 - flag)]

\* ( _p & flag ) == flag
\* Mutant of IsFlagSet: the whole register is compared with the mask
\* ( _p == flag ).
IsFlagSet_ComparesRegister(cpu, flag) == cpu.p = flag

IsFlagSet(cpu, flag) == BitAnd(cpu.p, flag) = flag

\* Mutant of SetZeroAndNegativeFlags: Zero and Negative are not cleared first,
\* so a flag left by an earlier value stays set.
SetZeroAndNegativeFlags_NoClear(cpu, value) ==
    LET c1 == IF value = 0 THEN SetFlags(cpu, Zero) ELSE cpu
        c2 == IF BitAnd(value, \h80) # 0 THEN SetFlags(c1, Negative) ELSE c1
    IN  c2

SetZeroAndNegativeFlags(cpu, value) ==
    LET c0 == ClearFlags(cpu, BitOr(Zero, Negative))
        c1 == IF value = 0 THEN SetFlags(c0, Zero) ELSE c0
        c2 == IF BitAnd(value, \h80) # 0 THEN SetFlags(c1, Negative) ELSE c1
    IN  c2

(***************************************************************************)
(* Addressing modes.  Each returns [cpu |-> the CPU after the operand      *)
(* fetch, address |-> the effective address].                              *)
(***************************************************************************)
\* Implied: no operand; the handler ignores the address.
IMP(cpu) == [cpu |-> cpu, address |-> 0]

\* return _pc++;
\* Mutant of IMM: the operand is not consumed ( return _pc; ).
IMM_NoAdvance(cpu) == [cpu |-> cpu, address |-> cpu.pc]

IMM(cpu) == [cpu |-> [cpu EXCEPT !.pc = U16(cpu.pc + 1)], address |-> cpu.pc]

\* return Read( _pc++ ) & 0x00FF;
ZPG(cpu) ==
    LET f == Fetch(cpu)
    IN  [cpu |-> f.cpu, address |-> BitAnd(f.value, \h00FF)]

\* return ( Read( _pc++ ) + _x ) & 0x00FF;
\* Mutant of ZPGX: the sum is not masked to zero page ( Read( _pc++ ) + _x ).
ZPGX_NoWrap(cpu) ==
    LET f == Fetch(cpu)
    IN  [cpu |-> f.cpu, address |-> f.value + cpu.x]

ZPGX(cpu) ==
    LET f == Fetch(cpu)
    IN  [cpu |-> f.cpu, address |-> BitAnd(f.value + cpu.x, \h00FF)]

\* return ( Read( _pc++ ) + _y ) & 0x00FF;
ZPGY(cpu) ==
    LET f == Fetch(cpu)
    IN  [cpu |-> f.cpu, address |-> BitAnd(f.value + cpu.y, \h00FF)]

ABS(cpu) ==
    LET low == Fetch(cpu)
        high == Fetch(low.cpu)
    IN  [cpu |-> high.cpu, address |-> BitOr(Shl8(high.value), low.value)]

\* Mutant of ABSX: the page-cross cycle is added whatever the opcode's policy.
ABSX_IgnoresPolicy(cpu) ==
    LET low == Fetch(cpu)
        high == Fetch(low.cpu)
        address == BitOr(Shl8(high.value), low.value)
        final_address == U16(address + cpu.x)
        c == high.cpu
    IN  [cpu |-> IF BitAnd(final_address, \hFF00) # BitAnd(address, \hFF00)
                 THEN [c EXCEPT !.cycles = c.cycles + 1]
                 ELSE c,
         address |-> final_address]

\* Mutant of ABSX: the crossing is tested on the low bytes.
ABSX_ComparesLowByte(cpu) ==
    LET low == Fetch(cpu)
        high == Fetch(low.cpu)
        address == BitOr(Shl8(high.value), low.value)
        final_address == U16(address + cpu.x)
        c == high.cpu
    IN  [cpu |-> IF /\ c.currentPageCrossPenalty
                    /\ BitAnd(final_address, \h00FF) # BitAnd(address, \h00FF)
                 THEN [c EXCEPT !.cycles = c.cycles + 1]
                 ELSE c,
         address |-> final_address]

ABSX(cpu) ==
    LET low == Fetch(cpu)
        high == Fetch(low.cpu)
        address == BitOr(Shl8(high.value), low.value)
        final_address == U16(address + cpu.x)
        c == high.cpu
    IN  [cpu |-> IF /\ c.currentPageCrossPenalty
                    /\ BitAnd(final_address, \hFF00) # BitAnd(address, \hFF00)
                 THEN [c EXCEPT !.cycles = c.cycles + 1]
                 ELSE c,
         address |-> final_address]

ABSY(cpu) ==
    LET low == Fetch(cpu)
        high == Fetch(low.cpu)
        address == BitOr(Shl8(high.value), low.value)
        final_address == U16(address + cpu.y)
        c == high.cpu
    IN  [cpu |-> IF /\ c.currentPageCrossPenalty
                    /\ BitAnd(final_address, \hFF00) # BitAnd(address, \hFF00)
                 THEN [c EXCEPT !.cycles = c.cycles + 1]
                 ELSE c,
         address |-> final_address]

\* Mutant of IND: the high byte is always read from ptr + 1 (the page-wrap
\* bug of the 6502 is not reproduced).
IND_CrossesPage(cpu) ==
    LET ptr_low == Fetch(cpu)
        ptr_high == Fetch(ptr_low.cpu)
        ptr == BitOr(Shl8(ptr_high.value), ptr_low.value)
        c == ptr_high.cpu
        address_low == Read(c, ptr)
        address_high == Read(c, U16(ptr + 1))
    IN  [cpu |-> c, address |-> BitOr(Shl8(address_high), address_low)]

IND(cpu) ==
    LET ptr_low == Fetch(cpu)
        ptr_high == Fetch(ptr_low.cpu)
        ptr == BitOr(Shl8(ptr_high.value), ptr_low.value)
        c == ptr_high.cpu
        address_low == Read(c, ptr)
        address_high == IF ptr_low.value = \hFF
                        THEN Read(c, BitAnd(ptr, \hFF00))
                        ELSE Read(c, U16(ptr + 1))
    IN  [cpu |-> c, address |-> BitOr(Shl8(address_high), address_low)]

\* Mutant of INDX: the address of the pointer's high byte is not wrapped
\* inside zero page ( Read( zero_page_address + 1 ) ).
INDX_HighByteNoWrap(cpu) ==
    LET f == Fetch(cpu)
        c == f.cpu
        zero_page_address == U8(BitAnd(f.value + cpu.x, \h00FF))
        ptr_low == Read(c, zero_page_address)
        ptr_high == Read(c, zero_page_address + 1)
    IN  [cpu |-> c, address |-> BitOr(Shl8(ptr_high), ptr_low)]

INDX(cpu) ==
    LET f == Fetch(cpu)
        c == f.cpu
        zero_page_address == U8(BitAnd(f.value + cpu.x, \h00FF))
        ptr_low == Read(c, zero_page_address)
        ptr_high == Read(c, BitAnd(zero_page_address + 1, \h00FF))
    IN  [cpu |-> c, address |-> BitOr(Shl8(ptr_high), ptr_low)]

INDY(cpu) ==
    LET f == Fetch(cpu)
        c == f.cpu
        zero_page_address == f.value
        ptr_low == Read(c, zero_page_address)
        ptr_high == Read(c, BitAnd(zero_page_address + 1, \h00FF))
        address == U16(BitOr(Shl8(ptr_high), ptr_low) + cpu.y)
    IN  [cpu |-> IF /\ c.currentPageCrossPenalty
                    /\ BitAnd(address, \hFF00) # Shl8(ptr_high)
                 THEN [c EXCEPT !.cycles = c.cycles + 1]
                 ELSE c,
         address |-> address]

\* The operand byte as an int8_t.
Signed8(v) == IF v >= 128 THEN v - 256 ELSE v

REL(cpu) ==
    LET offset == Signed8(Read(cpu, cpu.pc))
        address == U16(cpu.pc + offset)
    IN  [cpu |-> [cpu EXCEPT !.pc = U16(cpu.pc + 1)], address |-> address]

(***************************************************************************)
(* Instruction helpers and instructions.  Each takes the CPU and the       *)
(* effective address and returns the CPU after the instruction.            *)
(***************************************************************************)
\* LoadRegister( address, reg ) with reg one of "a", "x", "y".
\* Mutant of LoadRegister: the flags are set from the register's old value
\* (SetZeroAndNegativeFlags is called before the assignment).
LoadRegister_FlagsBeforeLoad(cpu, address, reg) ==
    LET value == Read(cpu, address)
    IN  [SetZeroAndNegativeFlags(cpu, cpu[reg]) EXCEPT ![reg] = value]

LoadRegister(cpu, address, reg) ==
    LET value == Read(cpu, address)
    IN  SetZeroAndNegativeFlags([cpu EXCEPT ![reg] = value], value)

\* Mutant of StoreRegister: the store also sets Zero and Negative from the
\* stored value, as a load does.
StoreRegister_SetsFlags(cpu, address, reg) ==
    SetZeroAndNegativeFlags(Write(cpu, address, reg), reg)

StoreRegister(cpu, address, reg) == Write(cpu, address, reg)

LDA(cpu, address) == LoadRegister(cpu, address, "a")

LDX(cpu, address) == LoadRegister(cpu, address, "x")

LDY(cpu, address) == LoadRegister(cpu, address, "y")

\* Mutant of STA: the X register is stored (the body of STX).
STA_StoresX(cpu, address) == StoreRegister(cpu, address, cpu.x)

STA(cpu, address) == StoreRegister(cpu, address, cpu.a)

STX(cpu, address) == StoreRegister(cpu, address, cpu.x)

STY(cpu, address) == StoreRegister(cpu, address, cpu.y)

\* Mutant of ADC: overflow is set whenever the sign of the accumulator and of
\* the sum differ (the operand's sign is not looked at).
ADC_OverflowIgnoresOperand(cpu, address) ==
    LET value == Read(cpu, address)
        carry == IF IsFlagSet(cpu, Carry) THEN 1 ELSE 0
        sum == U16(cpu.a + value + carry)
        c1 == IF sum > \hFF THEN SetFlags(cpu, Carry) ELSE ClearFlags(cpu, Carry)
        c2 == IF BitAnd(sum, \hFF) = 0
              THEN SetFlags(c1, Zero) ELSE ClearFlags(c1, Zero)
        accumulator_sign_bit == BitAnd(cpu.a, \h80)
        sum_sign_bit == U8(BitAnd(sum, \h80))
        c3 == IF accumulator_sign_bit # sum_sign_bit
              THEN SetFlags(c2, Overflow) ELSE ClearFlags(c2, Overflow)
        c4 == IF BitAnd(sum, \h80) # 0
              THEN SetFlags(c3, Negative) ELSE ClearFlags(c3, Negative)
    IN  [c4 EXCEPT !.a = BitAnd(sum, \hFF)]

\* Mutant of ADC: with Decimal set the sum is adjusted as packed BCD (six is
\* added when the low digits overflow nine), as on a 6502 with decimal mode.
ADC_DecimalAdjusts(cpu, address) ==
    LET value == Read(cpu, address)
        carry == IF IsFlagSet(cpu, Carry) THEN 1 ELSE 0
        low_digits == BitAnd(cpu.a, \h0F) + BitAnd(value, \h0F) + carry
        sum == IF IsFlagSet(cpu, Decimal) /\ low_digits > 9
               THEN U16(cpu.a + value + carry + 6)
               ELSE U16(cpu.a + value + carry)
        c1 == IF sum > \hFF THEN SetFlags(cpu, Carry) ELSE ClearFlags(cpu, Carry)
        c2 == IF BitAnd(sum, \hFF) = 0
              THEN SetFlags(c1, Zero) ELSE ClearFlags(c1, Zero)
        accumulator_sign_bit == BitAnd(cpu.a, \h80)
        value_sign_bit == BitAnd(value, \h80)
        sum_sign_bit == U8(BitAnd(sum, \h80))
        c3 == IF /\ accumulator_sign_bit = value_sign_bit
                 /\ accumulator_sign_bit # sum_sign_bit
              THEN SetFlags(c2, Overflow) ELSE ClearFlags(c2, Overflow)
        c4 == IF BitAnd(sum, \h80) # 0
              THEN SetFlags(c3, Negative) ELSE ClearFlags(c3, Negative)
    IN  [c4 EXCEPT !.a = BitAnd(sum, \hFF)]

\* Mutant of ADC: Overflow is set from the carry out of bit 7 (the test for
\* Carry is used for Overflow too).
ADC_OverflowFromCarryOut(cpu, address) ==
    LET value == Read(cpu, address)
        carry == IF IsFlagSet(cpu, Carry) THEN 1 ELSE 0
        sum == U16(cpu.a + value + carry)
        c1 == IF sum > \hFF THEN SetFlags(cpu, Carry) ELSE ClearFlags(cpu, Carry)
        c2 == IF BitAnd(sum, \hFF) = 0
              THEN SetFlags(c1, Zero) ELSE ClearFlags(c1, Zero)
        c3 == IF sum > \hFF
              THEN SetFlags(c2, Overflow) ELSE ClearFlags(c2, Overflow)
        c4 == IF BitAnd(sum, \h80) # 0
              THEN SetFlags(c3, Negative) ELSE ClearFlags(c3, Negative)
    IN  [c4 EXCEPT !.a = BitAnd(sum, \hFF)]

ADC(cpu, address) ==
    LET value == Read(cpu, address)
        carry == IF IsFlagSet(cpu, Carry) THEN 1 ELSE 0
        sum == U16(cpu.a + value + carry)
        c1 == IF sum > \hFF THEN SetFlags(cpu, Carry) ELSE ClearFlags(cpu, Carry)
        c2 == IF BitAnd(sum, \hFF) = 0
              THEN SetFlags(c1, Zero) ELSE ClearFlags(c1, Zero)
        accumulator_sign_bit == BitAnd(cpu.a, \h80)
        value_sign_bit == BitAnd(value, \h80)
        sum_sign_bit == U8(BitAnd(sum, \h80))
        c3 == IF /\ accumulator_sign_bit = value_sign_bit
                 /\ accumulator_sign_bit # sum_sign_bit
              THEN SetFlags(c2, Overflow) ELSE ClearFlags(c2, Overflow)
        c4 == IF BitAnd(sum, \h80) # 0
              THEN SetFlags(c3, Negative) ELSE ClearFlags(c3, Negative)
    IN  [c4 EXCEPT !.a = BitAnd(sum, \hFF)]

\* Mutant of SBC: the borrow is not the inverse of Carry (carry ? 1 : 0).
SBC_BorrowNotInverted(cpu, address) ==
    LET value == Read(cpu, address)
        carry == IF IsFlagSet(cpu, Carry) THEN 1 ELSE 0
        diff == U16(cpu.a - value - carry)
        c1 == IF diff < \h100 THEN SetFlags(cpu, Carry) ELSE ClearFlags(cpu, Carry)
        c2 == IF BitAnd(diff, \hFF) = 0
              THEN SetFlags(c1, Zero) ELSE ClearFlags(c1, Zero)
        accumulator_sign_bit == BitAnd(cpu.a, \h80)
        value_sign_bit == BitAnd(value, \h80)
        diff_sign_bit == U8(BitAnd(diff, \h80))
        c3 == IF /\ accumulator_sign_bit # value_sign_bit
                 /\ accumulator_sign_bit # diff_sign_bit
              THEN SetFlags(c2, Overflow) ELSE ClearFlags(c2, Overflow)
        c4 == IF BitAnd(diff, \h80) # 0
              THEN SetFlags(c3, Negative) ELSE ClearFlags(c3, Negative)
    IN  [c4 EXCEPT !.a = BitAnd(diff, \hFF)]

\* Mutant of SBC: the overflow test is the one of ADC (operand signs equal).
SBC_OverflowLikeAdc(cpu, address) ==
    LET value == Read(cpu, address)
        carry == IF IsFlagSet(cpu, Carry) THEN 0 ELSE 1
        diff == U16(cpu.a - value - carry)
        c1 == IF diff < \h100 THEN SetFlags(cpu, Carry) ELSE ClearFlags(cpu, Carry)
        c2 == IF BitAnd(diff, \hFF) = 0
              THEN SetFlags(c1, Zero) ELSE ClearFlags(c1, Zero)
        accumulator_sign_bit == BitAnd(cpu.a, \h80)
        value_sign_bit == BitAnd(value, \h80)
        diff_sign_bit == U8(BitAnd(diff, \h80))
        c3 == IF /\ accumulator_sign_bit = value_sign_bit
                 /\ accumulator_sign_bit # diff_sign_bit
              THEN SetFlags(c2, Overflow) ELSE ClearFlags(c2, Overflow)
        c4 == IF BitAnd(diff, \h80) # 0
              THEN SetFlags(c3, Negative) ELSE ClearFlags(c3, Negative)
    IN  [c4 EXCEPT !.a = BitAnd(diff, \hFF)]

SBC(cpu, address) ==
    LET value == Read(cpu, address)
        carry == IF IsFlagSet(cpu, Carry) THEN 0 ELSE 1
        diff == U16(cpu.a - value - carry)
        c1 == IF diff < \h100 THEN SetFlags(cpu, Carry) ELSE ClearFlags(cpu, Carry)
        c2 == IF BitAnd(diff, \hFF) = 0
              THEN SetFlags(c1, Zero) ELSE ClearFlags(c1, Zero)
        accumulator_sign_bit == BitAnd(cpu.a, \h80)
        value_sign_bit == BitAnd(value, \h80)
        diff_sign_bit == U8(BitAnd(diff, \h80))
        c3 == IF /\ accumulator_sign_bit # value_sign_bit
                 /\ accumulator_sign_bit # diff_sign_bit
              THEN SetFlags(c2, Overflow) ELSE ClearFlags(c2, Overflow)
        c4 == IF BitAnd(diff, \h80) # 0
              THEN SetFlags(c3, Negative) ELSE ClearFlags(c3, Negative)
    IN  [c4 EXCEPT !.a = BitAnd(diff, \hFF)]

INC(cpu, address) ==
    LET value == Read(cpu, address)
        result == U8(value + 1)
    IN  Write(SetZeroAndNegativeFlags(cpu, result), address, result)

INX(cpu, address) ==
    LET c == [cpu EXCEPT !.x = U8(cpu.x + 1)]
    IN  SetZeroAndNegativeFlags(c, c.x)

INY(cpu, address) ==
    LET c == [cpu EXCEPT !.y = U8(cpu.y + 1)]
    IN  SetZeroAndNegativeFlags(c, c.y)

\* Mutant of DEC: the flags are set from the value read, not from the result.
DEC_FlagsFromOldValue(cpu, address) ==
    LET value == Read(cpu, address)
        result == U8(value - 1)
    IN  Write(SetZeroAndNegativeFlags(cpu, value), address, result)

DEC(cpu, address) ==
    LET value == Read(cpu, address)
        result == U8(value - 1)
    IN  Write(SetZeroAndNegativeFlags(cpu, result), address, result)

DEX(cpu, address) ==
    LET c == [cpu EXCEPT !.x = U8(cpu.x - 1)]
    IN  SetZeroAndNegativeFlags(c, c.x)

\* Mutant of DEY: the stack pointer is decremented instead of Y ( _s-- ).
DEY_DecrementsStack(cpu, address) ==
    LET c == [cpu EXCEPT !.s = U8(cpu.s - 1)]
    IN  SetZeroAndNegativeFlags(c, c.s)

DEY(cpu, address) ==
    LET c == [cpu EXCEPT !.y = U8(cpu.y - 1)]
    IN  SetZeroAndNegativeFlags(c, c.y)

(***************************************************************************)
(* The opcode table.                                                       *)
(***************************************************************************)
\* The value of InstructionData::pageCrossPenalty when the initializer list
\* leaves it out.
DefaultPageCrossPenalty == TRUE

\* InstructionData{ name, instructionMethod, addressingModeMethod, cycles }
InstructionData(name, instructionMethod, addressingModeMethod, cyc) ==
    [name |-> name, instructionMethod |-> instructionMethod,
     addressingModeMethod |-> addressingModeMethod, cycles |-> cyc,
     pageCrossPenalty |-> DefaultPageCrossPenalty]

\* InstructionData{ name, instructionMethod, addressingModeMethod, cycles,
\*                  pageCrossPenalty }
InstructionDataP(name, instructionMethod, addressingModeMethod, cyc, pen) ==
    [name |-> name, instructionMethod |-> instructionMethod,
     addressingModeMethod |-> addressingModeMethod, cycles |-> cyc,
     pageCrossPenalty |-> pen]

\* A value-initialized entry of _opcodeTable{}: both handlers are null.
NullInstruction == InstructionDataP("", "nullptr", "nullptr", 0, DefaultPageCrossPenalty)

\* The assignments  _opcodeTable[opcode] = InstructionData{...}  of the
\* constructor, in the order of the source.
OpcodeAssignments ==
    <<
    <<\hA9, InstructionData("LDA_Immediate", "LDA", "IMM", 2)>>,
    <<\hA5, InstructionData("LDA_ZeroPage", "LDA", "ZPG", 3)>>,
    <<\hB5, InstructionData("LDA_ZeroPageX", "LDA", "ZPGX", 4)>>,
    <<\hAD, InstructionData("LDA_Absolute", "LDA", "ABS", 4)>>,
    <<\hBD, InstructionData("LDA_AbsoluteX", "LDA", "ABSX", 4)>>,
    <<\hB9, InstructionData("LDA_AbsoluteY", "LDA", "ABSY", 4)>>,
    <<\hA1, InstructionData("LDA_IndirectX", "LDA", "INDX", 6)>>,
    <<\hB1, InstructionData("LDA_IndirectY", "LDA", "INDY", 5)>>,
    <<\hA2, InstructionData("LDX_Immediate", "LDX", "IMM", 2)>>,
    <<\hA6, InstructionData("LDX_ZeroPage", "LDX", "ZPG", 3)>>,
    <<\hB6, InstructionData("LDX_ZeroPageY", "LDX", "ZPGY", 4)>>,
    <<\hAE, InstructionData("LDX_Absolute", "LDX", "ABS", 4)>>,
    <<\hBE, InstructionData("LDX_AbsoluteY", "LDX", "ABSY", 4)>>,
    <<\hA0, InstructionData("LDY_Immediate", "LDY", "IMM", 2)>>,
    <<\hA4, InstructionData("LDY_ZeroPage", "LDY", "ZPG", 3)>>,
    <<\hB4, InstructionData("LDY_ZeroPageX", "LDY", "ZPGX", 4)>>,
    <<\hAC, InstructionData("LDY_Absolute", "LDY", "ABS", 4)>>,
    <<\hBC, InstructionData("LDY_AbsoluteX", "LDY", "ABSX", 4)>>,
    <<\h85, InstructionData("STA_ZeroPage", "STA", "ZPG", 3)>>,
    <<\h95, InstructionData("STA_ZeroPageX", "STA", "ZPGX", 4)>>,
    <<\h8D, InstructionData("STA_Absolute", "STA", "ABS", 4)>>,
    <<\h9D, InstructionDataP("STA_AbsoluteX", "STA", "ABSX", 5, FALSE)>>,
    <<\h99, InstructionDataP("STA_AbsoluteY", "STA", "ABSY", 5, FALSE)>>,
    <<\h81, InstructionDataP("STA_IndirectX", "STA", "INDX", 6, FALSE)>>,
    <<\h91, InstructionDataP("STA_IndirectY", "STA", "INDY", 6, FALSE)>>,
    <<\h86, InstructionData("STX_ZeroPage", "STX", "ZPG", 3)>>,
    <<\h96, InstructionData("STX_ZeroPageY", "STX", "ZPGY", 4)>>,
    <<\h8E, InstructionData("STX_Absolute", "STX", "ABS", 4)>>,
    <<\h84, InstructionData("STY_ZeroPage", "STY", "ZPG", 3)>>,
    <<\h94, InstructionData("STY_ZeroPageX", "STY", "ZPGX", 4)>>,
    <<\h8C, InstructionData("STY_Absolute", "STY", "ABS", 4)>>,
    <<\h69, InstructionData("ADC_Immediate", "ADC", "IMM", 2)>>,
    <<\h65, InstructionData("ADC_ZeroPage", "ADC", "ZPG", 3)>>,
    <<\h75, InstructionData("ADC_ZeroPageX", "ADC", "ZPGX", 4)>>,
    <<\h6D, InstructionData("ADC_Absolute", "ADC", "ABS", 4)>>,
    <<\h7D, InstructionData("ADC_AbsoluteX", "ADC", "ABSX", 4)>>,
    <<\h79, InstructionData("ADC_AbsoluteY", "ADC", "ABSY", 4)>>,
    <<\h61, InstructionData("ADC_IndirectX", "ADC", "INDX", 6)>>,
    <<\h71, InstructionData("ADC_IndirectY", "ADC", "INDY", 5)>>,
    <<\hE9, InstructionData("SBC_Immediate", "SBC", "IMM", 2)>>,
    <<\hE5, InstructionData("SBC_ZeroPage", "SBC", "ZPG", 3)>>,
    <<\hF5, InstructionData("SBC_ZeroPageX", "SBC", "ZPGX", 4)>>,
    <<\hED, InstructionData("SBC_Absolute", "SBC", "ABS", 4)>>,
    <<\hFD, InstructionData("SBC_AbsoluteX", "SBC", "ABSX", 4)>>,
    <<\hF9, InstructionData("SBC_AbsoluteY", "SBC", "ABSY", 4)>>,
    <<\hE1, InstructionData("SBC_IndirectX", "SBC", "INDX", 6)>>,
    <<\hF1, InstructionData("SBC_IndirectY", "SBC", "INDY", 5)>>,
    <<\hE6, InstructionData("INC_ZeroPage", "INC", "ZPG", 5)>>,
    <<\hF6, InstructionData("INC_ZeroPageX", "INC", "ZPGX", 6)>>,
    <<\hEE, InstructionData("INC_Absolute", "INC", "ABS", 6)>>,
    <<\hFE, InstructionDataP("INC_AbsoluteX", "INC", "ABSX", 7, FALSE)>>,
    <<\hC6, InstructionData("DEC_ZeroPage", "DEC", "ZPG", 5)>>,
    <<\hD6, InstructionData("DEC_ZeroPageX", "DEC", "ZPGX", 6)>>,
    <<\hCE, InstructionData("DEC_Absolute", "DEC", "ABS", 6)>>,
    <<\hDE, InstructionDataP("DEC_AbsoluteX", "DEC", "ABSX", 7, FALSE)>>,
    <<\hE8, InstructionData("INX", "INX", "IMP", 2)>>,
    <<\hC8, InstructionData("INY", "INY", "IMP", 2)>>,
    <<\hCA, InstructionData("DEX", "DEX", "IMP", 2)>>,
    <<\h88, InstructionData("DEY", "DEY", "IMP", 2)>>
    >>

\* The table a sequence of assignments builds from _opcodeTable{}: a later
\* assignment to the same index overwrites an earlier one; an index never
\* assigned keeps null handlers.
TableOf(assignments) ==
    [opcode \in Byte |->
        LET hits == {i \in 1 .. Len(assignments) : assignments[i][1] = opcode}
        IN  IF hits = {}
            THEN NullInstruction
            ELSE assignments[CHOOSE i \in hits : \A j \in hits : j <= i][2]]

\* Mutant of opcodeTable: INY is assigned to index 0xE8 (the index of INX)
\* instead of 0xC8.
opcodeTable_InyAtInxIndex ==
    TableOf([i \in 1 .. Len(OpcodeAssignments) |->
                IF OpcodeAssignments[i][2].name = "INY"
                THEN <<\hE8, OpcodeAssignments[i][2]>>
                ELSE OpcodeAssignments[i]])

\* _opcodeTable after the constructor.
opcodeTable == TableOf(OpcodeAssignments)

\* ( this->*addressing_mode_handler )()
CallAddressingMode(handler, cpu) ==
    CASE handler = "IMP" -> IMP(cpu)
      [] handler = "IMM" -> IMM(cpu)
      [] handler = "ZPG" -> ZPG(cpu)
      [] handler = "ZPGX" -> ZPGX(cpu)
      [] handler = "ZPGY" -> ZPGY(cpu)
      [] handler = "ABS" -> ABS(cpu)
      [] handler = "ABSX" -> ABSX(cpu)
      [] handler = "ABSY" -> ABSY(cpu)
      [] handler = "IND" -> IND(cpu)
      [] handler = "INDX" -> INDX(cpu)
      [] handler = "INDY" -> INDY(cpu)
      [] handler = "REL" -> REL(cpu)

\* ( this->*instruction_handler )( address )
CallInstruction(handler, cpu, address) ==
    CASE handler = "LDA" -> LDA(cpu, address)
      [] handler = "LDX" -> LDX(cpu, address)
      [] handler = "LDY" -> LDY(cpu, address)
      [] handler = "STA" -> STA(cpu, address)
      [] handler = "STX" -> STX(cpu, address)
      [] handler = "STY" -> STY(cpu, address)
      [] handler = "ADC" -> ADC(cpu, address)
      [] handler = "SBC" -> SBC(cpu, address)
      [] handler = "INC" -> INC(cpu, address)
      [] handler = "INX" -> INX(cpu, address)
      [] handler = "INY" -> INY(cpu, address)
      [] handler = "DEC" -> DEC(cpu, address)
      [] handler = "DEX" -> DEX(cpu, address)
      [] handler = "DEY" -> DEY(cpu, address)

(***************************************************************************)
(* CPU::Tick and CPU::Reset as functions of the CPU record.                *)
(***************************************************************************)
\* Mutant of TickCpu: a bad opcode is charged one cycle for its fetch.
TickCpu_ChargesBadOpcode(cpu) ==
    LET f == Fetch(cpu)
        opcode == f.value
        instruction == opcodeTable[opcode]
        instruction_handler == instruction.instructionMethod
        addressing_mode_handler == instruction.addressingModeMethod
    IN  IF instruction_handler # "nullptr" /\ addressing_mode_handler # "nullptr"
        THEN LET c0 == [f.cpu EXCEPT
                           !.currentPageCrossPenalty = instruction.pageCrossPenalty]
                 am == CallAddressingMode(addressing_mode_handler, c0)
                 c1 == CallInstruction(instruction_handler, am.cpu, am.address)
             IN  [c1 EXCEPT !.cycles = c1.cycles + instruction.cycles]
        ELSE [f.cpu EXCEPT !.cycles = f.cpu.cycles + 1]

\* Mutant of TickCpu: the cycle count is assigned, not added to.
TickCpu_AssignsCycles(cpu) ==
    LET f == Fetch(cpu)
        opcode == f.value
        instruction == opcodeTable[opcode]
        instruction_handler == instruction.instructionMethod
        addressing_mode_handler == instruction.addressingModeMethod
    IN  IF instruction_handler # "nullptr" /\ addressing_mode_handler # "nullptr"
        THEN LET c0 == [f.cpu EXCEPT
                           !.currentPageCrossPenalty = instruction.pageCrossPenalty]
                 am == CallAddressingMode(addressing_mode_handler, c0)
                 c1 == CallInstruction(instruction_handler, am.cpu, am.address)
             IN  [c1 EXCEPT !.cycles = instruction.cycles]
        ELSE f.cpu

TickCpu(cpu) ==
    LET f == Fetch(cpu)
        opcode == f.value
        instruction == opcodeTable[opcode]
        instruction_handler == instruction.instructionMethod
        addressing_mode_handler == instruction.addressingModeMethod
    IN  IF instruction_handler # "nullptr" /\ addressing_mode_handler # "nullptr"
        THEN LET c0 == [f.cpu EXCEPT
                           !.currentPageCrossPenalty = instruction.pageCrossPenalty]
                 am == CallAddressingMode(addressing_mode_handler, c0)
                 c1 == CallInstruction(instruction_handler, am.cpu, am.address)
             IN  [c1 EXCEPT !.cycles = c1.cycles + instruction.cycles]
        ELSE f.cpu

\* Mutant of ResetCpu: the reset vector read high byte first at $FFFC.
ResetCpu_SwappedVector(cpu) ==
    [cpu EXCEPT !.a = \h00, !.x = \h00, !.y = \h00, !.s = \hFD,
                !.p = BitOr(\h00, Unused), !.cycles = 0,
                !.pc = BitOr(Shl8(Read(cpu, \hFFFC)), Read(cpu, \hFFFD))]

ResetCpu(cpu) ==
    [cpu EXCEPT !.a = \h00, !.x = \h00, !.y = \h00, !.s = \hFD,
                !.p = BitOr(\h00, Unused), !.cycles = 0,
                !.pc = BitOr(Shl8(Read(cpu, \hFFFD)), Read(cpu, \hFFFC))]

(***************************************************************************)
(* The state of the program: the CPU's fields and the memory behind the    *)
(* bus.  last records the operation that produced the state and the CPU    *)
(* before it; steps counts the operations since the start state.           *)
(***************************************************************************)
Cpu ==
    [a |-> a, x |-> x, y |-> y, s |-> s, p |-> p, pc |-> pc, cycles |-> cycles,
     mem |-> mem, currentPageCrossPenalty |-> currentPageCrossPenalty]

SetCpu(cpu) ==
    /\ a' = cpu.a
    /\ x' = cpu.x
    /\ y' = cpu.y
    /\ s' = cpu.s
    /\ p' = cpu.p
    /\ pc' = cpu.pc
    /\ cycles' = cpu.cycles
    /\ mem' = cpu.mem
    /\ currentPageCrossPenalty' = cpu.currentPageCrossPenalty

\* The CPU of the test fixture after construction over a flat-memory bus;
\* penalty is the value of _currentPageCrossPenalty, which Reset leaves alone.
Constructed(penalty) ==
    [a |-> 0, x |-> 0, y |-> 0, s |-> \hFD, p |-> Unused, pc |-> 0, cycles |-> 0,
     mem |-> <<>>, currentPageCrossPenalty |-> penalty]

RECURSIVE WriteRam(_, _)
\* for ( ram_entry : ram ) cpu.Write( address, value );
WriteRam(cpu, ram) ==
    IF ram = <<>>
    THEN cpu
    ELSE WriteRam(Write(cpu, Head(ram)[1], Head(ram)[2]), Tail(ram))

\* CPUTestFixture::LoadStateFromJson: the setters, then the RAM writes.
LoadStateFromJson(cpu, state) ==
    WriteRam([cpu EXCEPT !.pc = state.pc, !.a = state.a, !.x = state.x,
                         !.y = state.y, !.s = state.s, !.p = state.p],
             state.ram)

\* The first two statements of CPUTestFixture::RunTestCase.
SeedTestCase(testCase) ==
    LoadStateFromJson(ResetCpu(Constructed(testCase.penalty)), testCase)

(***************************************************************************)
(* Inputs: the test cases the start states are seeded from.  A test case   *)
(* is one instruction (opcode and two operand bytes) at pc and a register  *)
(* file, as in the per-opcode JSON suite.                                  *)
(***************************************************************************)
ImplementedOpcodes ==
    {opcode \in Byte : opcodeTable[opcode].instructionMethod # "nullptr"}

\* Opcodes the table leaves null: BRK, an illegal opcode, JMP (indirect), NOP.
UnimplementedSample == {\h00, \h02, \h6C, \hEA, \hFF}

SeedPcs == {\h8000, \hFFFF}

SeedOperandLow == {\h00, \hF0, \hFF}

SeedOperandHigh == {\h20, \hFF}

SeedRegisters ==
    { [a |-> \h42, x |-> \h20, y |-> \h01, s |-> \hFD, p |-> \h20],
      [a |-> \h42, x |-> \h01, y |-> \h20, s |-> \hFD, p |-> \hDF],
      [a |-> \h80, x |-> \h0D, y |-> \hFF, s |-> \h00, p |-> \h21],
      [a |-> \h00, x |-> \hFF, y |-> \h0D, s |-> \hFF, p |-> \hC2],
      [a |-> \h7F, x |-> \h00, y |-> \h02, s |-> \h80, p |-> \h63] }

TestCase(opcode, low, high, at, regs, penalty) ==
    [pc |-> at, a |-> regs.a, x |-> regs.x, y |-> regs.y, s |-> regs.s,
     p |-> regs.p, penalty |-> penalty,
     ram |-> << <<at, opcode>>, <<U16(at + 1), low>>, <<U16(at + 2), high>> >>]

TestCases ==
    {TestCase(opcode, low, high, at, regs, penalty) :
        opcode \in ImplementedOpcodes \cup UnimplementedSample,
        low \in SeedOperandLow, high \in SeedOperandHigh, at \in SeedPcs,
        regs \in SeedRegisters, penalty \in BOOLEAN}

(***************************************************************************)
(* Spec: a seeded test case, then Tick and Reset calls.                    *)
(***************************************************************************)
InitFrom(testCases) ==
    \E cpu \in {SeedTestCase(testCase) : testCase \in testCases} :
            /\ a = cpu.a
            /\ x = cpu.x
            /\ y = cpu.y
            /\ s = cpu.s
            /\ p = cpu.p
            /\ pc = cpu.pc
            /\ cycles = cpu.cycles
            /\ mem = cpu.mem
            /\ currentPageCrossPenalty = cpu.currentPageCrossPenalty
            /\ last = [op |-> "Seed", pre |-> cpu]
            /\ steps = 0

Init == InitFrom(TestCases)

\* One call of cpu.Tick().
TickStep ==
    \E cpu \in {TickCpu(Cpu)} :
        /\ SetCpu(cpu)
        /\ last' = [op |-> "Tick", pre |-> Cpu]
        /\ steps' = steps + 1

\* One call of cpu.Reset().
ResetStep ==
    \E cpu \in {ResetCpu(Cpu)} :
        /\ SetCpu(cpu)
        /\ last' = [op |-> "Reset", pre |-> Cpu]
        /\ steps' = steps + 1

Tick == steps < MaxSteps /\ TickStep

Reset == steps < MaxSteps /\ ResetStep

Next == Tick \/ Reset

Spec == Init /\ [][Next]_vars

(***************************************************************************)
(* SpecBoot: the states reachable from Reset by Ticks alone.  The harness  *)
(* writes a program where the reset vector points, calls Reset, and then   *)
(* only Tick runs (no setter, no SetFlags / ClearFlags, no second Reset).  *)
(***************************************************************************)
\* Bytes a boot program is made of (opcodes, also read as operands):
\* LDA #, ADC #, SBC #, INX, DEY, INC zp, STA zp, LDA (zp),Y, BRK, $FF.
BootBytes == {\hA9, \h69, \hE9, \hE8, \h88, \hE6, \h85, \hB1, \h00, \hFF}

BootPrograms == [1 .. BootLength -> BootBytes]

\* The address Reset loads into PC when the vector was never written.
BootVector == BitOr(Shl8(InitialRam(\hFFFD)), InitialRam(\hFFFC))

BootRam(program) ==
    [i \in 1 .. BootLength |-> <<U16(BootVector + i - 1), program[i]>>]

InitBoot ==
    \E before \in {WriteRam(Constructed(penalty), BootRam(program)) :
                       program \in BootPrograms, penalty \in BOOLEAN} :
        \E cpu \in {ResetCpu(before)} :
            /\ a = cpu.a
            /\ x = cpu.x
            /\ y = cpu.y
            /\ s = cpu.s
            /\ p = cpu.p
            /\ pc = cpu.pc
            /\ cycles = cpu.cycles
            /\ mem = cpu.mem
            /\ currentPageCrossPenalty = cpu.currentPageCrossPenalty
            /\ last = [op |-> "Reset", pre |-> before]
            /\ steps = 0

TickBoot == steps < MaxBootTicks /\ TickStep

NextBoot == TickBoot

SpecBoot == InitBoot /\ [][NextBoot]_vars

(***************************************************************************)
(* SpecALU: ADC and SBC as functions of the accumulator, the operand and   *)
(* the status register.  The start state is a test case holding ADC # or   *)
(* SBC # with every accumulator value, boundary operands and four status   *)
(* values (Carry clear / set, with the other arithmetic flags clear or     *)
(* stale); one Tick executes it.                                           *)
(***************************************************************************)
AluOpcodes == {\h69, \hE9}

AluOperands ==
    {\h00, \h01, \h02, \h3F, \h40, \h7E, \h7F, \h80, \h81, \hC0, \hFE, \hFF}

AluStatus == {\h20, \h21, \hEA, \hEB}

AluTestCases ==
    {TestCase(opcode, v, \h00, \h8000,
              [a |-> acc, x |-> \h00, y |-> \h00, s |-> \hFD, p |-> status], TRUE) :
        opcode \in AluOpcodes, v \in AluOperands, acc \in Byte, status \in AluStatus}

InitALU == InitFrom(AluTestCases)

TickALU == steps < MaxAluTicks /\ TickStep

NextALU == TickALU

SpecALU == InitALU /\ [][NextALU]_vars

(***************************************************************************)
(* SpecFlags: the flag helpers as functions of the status register and     *)
(* their argument.  The start state is the constructed CPU with any status *)
(* value set through SetStatusRegister; then the helpers are called with   *)
(* the masks and values below.  last records the call's argument.          *)
(***************************************************************************)
MaxFlagCalls == 2

\* The masks of the calls: no bit, each single bit, the multi-bit masks of
\* the StatusFlags test (Carry | Zero, the six low bits, all eight), Zero |
\* Negative as SetZeroAndNegativeFlags passes it, and alternating patterns.
FlagMasks ==
    {\h00, \h01, \h02, \h04, \h08, \h10, \h20, \h40, \h80,
     \h03, \h3F, \hFF, \h82, \hC0, \hDF, \h7F, \h55, \hAA}

\* The values SetZeroAndNegativeFlags is called with.
FlagValues == {\h00, \h01, \h40, \h7F, \h80, \h81, \hFE, \hFF}

InitFlags ==
    \E cpu \in {[Constructed(TRUE) EXCEPT !.p = status] : status \in Byte} :
        /\ a = cpu.a
        /\ x = cpu.x
        /\ y = cpu.y
        /\ s = cpu.s
        /\ p = cpu.p
        /\ pc = cpu.pc
        /\ cycles = cpu.cycles
        /\ mem = cpu.mem
        /\ currentPageCrossPenalty = cpu.currentPageCrossPenalty
        /\ last = [op |-> "Seed", pre |-> cpu]
        /\ steps = 0

\* One call of SetFlags( flag ).
SetFlagsCall ==
    /\ steps < MaxFlagCalls
    /\ \E flag \in FlagMasks :
        /\ SetCpu(SetFlags(Cpu, flag))
        /\ last' = [op |-> "SetFlags", pre |-> Cpu, flag |-> flag]
    /\ steps' = steps + 1

\* One call of ClearFlags( flag ).
ClearFlagsCall ==
    /\ steps < MaxFlagCalls
    /\ \E flag \in FlagMasks :
        /\ SetCpu(ClearFlags(Cpu, flag))
        /\ last' = [op |-> "ClearFlags", pre |-> Cpu, flag |-> flag]
    /\ steps' = steps + 1

\* One call of SetZeroAndNegativeFlags( value ).
SetZeroAndNegativeFlagsCall ==
    /\ steps < MaxFlagCalls
    /\ \E value \in FlagValues :
        /\ SetCpu(SetZeroAndNegativeFlags(Cpu, value))
        /\ last' = [op |-> "SetZeroAndNegativeFlags", pre |-> Cpu, value |-> value]
    /\ steps' = steps + 1

NextFlags == SetFlagsCall \/ ClearFlagsCall \/ SetZeroAndNegativeFlagsCall

SpecFlags == InitFlags /\ [][NextFlags]_vars

(***************************************************************************)
(* SpecPair: two instructions in a row.  The start state is a test case    *)
(* whose RAM holds a first instruction at pc and, immediately after it, a  *)
(* second one of the same addressing mode with the same operand bytes      *)
(* (INC then DEC, STA then LDA); then Ticks.  last also records the CPU    *)
(* before the Tick before the last one.                                    *)
(***************************************************************************)
MaxPairTicks == 2

PairPc == \h8000

\* <<first opcode, second opcode>>: INC / DEC in their four modes, STA / LDA
\* in the seven modes both have.
OpcodePairs ==
    { <<\hE6, \hC6>>, <<\hF6, \hD6>>, <<\hEE, \hCE>>, <<\hFE, \hDE>>,
      <<\h85, \hA5>>, <<\h95, \hB5>>, <<\h8D, \hAD>>, <<\h9D, \hBD>>,
      <<\h99, \hB9>>, <<\h81, \hA1>>, <<\h91, \hB1>> }

PairOperandLow == {\h00, \h03, \h04, \h10, \h7F, \h80, \hF0, \hFF}

PairOperandHigh == {\h00, \h20, \h80}

\* Bytes written to zero page besides the program: none, or a pointer at
\* $10 that holds the address $0011 of its own high byte, or one that holds
\* $000F, one below its own low byte.
PairData ==
    { <<>>,
      << <<\h10, \h11>>, <<\h11, \h00>> >>,
      << <<\h10, \h0F>>, <<\h11, \h00>> >> }

\* The bytes of one instruction: the opcode and one or two operand bytes.
InstructionBytes(opcode, low, high) ==
    IF opcodeTable[opcode].addressingModeMethod \in {"ABS", "ABSX", "ABSY"}
    THEN <<opcode, low, high>>
    ELSE <<opcode, low>>

ProgramRam(at, bytes) == [i \in 1 .. Len(bytes) |-> <<U16(at + i - 1), bytes[i]>>]

PairTestCase(pair, low, high, regs, data) ==
    [pc |-> PairPc, a |-> regs.a, x |-> regs.x, y |-> regs.y, s |-> regs.s,
     p |-> regs.p, penalty |-> TRUE,
     ram |-> data \o ProgramRam(PairPc, InstructionBytes(pair[1], low, high)
                                        \o InstructionBytes(pair[2], low, high))]

PairTestCases ==
    {PairTestCase(pair, low, high, regs, data) :
        pair \in OpcodePairs, low \in PairOperandLow, high \in PairOperandHigh,
        regs \in SeedRegisters, data \in PairData}

InitPair == InitFrom(PairTestCases)

\* One call of cpu.Tick(), remembering the CPU before the previous call too.
TickPair ==
    /\ steps < MaxPairTicks
    /\ \E cpu \in {TickCpu(Cpu)} :
        /\ SetCpu(cpu)
        /\ last' = [op |-> "Tick", pre |-> Cpu, before |-> last.pre]
        /\ steps' = steps + 1

NextPair == TickPair

SpecPair == InitPair /\ [][NextPair]_vars

(***************************************************************************)
(* SpecIndirect: one instruction in the (Indirect,X) or (Indirect),Y mode  *)
(* with a pointer seeded in zero page; then Tick and Reset calls as in     *)
(* Spec.                                                                   *)
(***************************************************************************)
IndirectOpcodes ==
    {opcode \in Byte : opcodeTable[opcode].addressingModeMethod \in {"INDX", "INDY"}}

IndirectOperands == {\h00, \h10, \hF0, \hFE, \hFF}

\* Bytes written to memory besides the instruction: none; the pointer $10FF
\* at $10 / $11; the pointer $10FF at $FF / $00 (wrapping inside zero page),
\* with another byte at $0100.
IndirectData ==
    { <<>>,
      << <<\h0010, \hFF>>, <<\h0011, \h10>> >>,
      << <<\h00FF, \hFF>>, <<\h0000, \h10>>, <<\h0100, \h20>> >> }

IndirectTestCase(opcode, low, regs, penalty, data) ==
    [pc |-> \h8000, a |-> regs.a, x |-> regs.x, y |-> regs.y, s |-> regs.s,
     p |-> regs.p, penalty |-> penalty,
     ram |-> data \o ProgramRam(\h8000, <<opcode, low>>)]

IndirectTestCases ==
    {IndirectTestCase(opcode, low, regs, penalty, data) :
        opcode \in IndirectOpcodes, low \in IndirectOperands,
        regs \in SeedRegisters, penalty \in BOOLEAN, data \in IndirectData}

InitIndirect == InitFrom(IndirectTestCases)

SpecIndirect == InitIndirect /\ [][Next]_vars

(***************************************************************************)
(* SpecModes: the addressing modes no table entry uses, IND and REL, as    *)
(* functions of the program counter, the operand bytes there and memory.   *)
(* The start state is a test case with two operand bytes at pc; then the   *)
(* handlers are called.  last records the address the handler returned.    *)
(***************************************************************************)
MaxModeCalls == 1

ModePcs == {\h0000, \h0010, \h8000, \hFFFF}

ModeOperandLow == {\h00, \h01, \h7F, \h80, \hFE, \hFF}

ModeOperandHigh == {\h00, \h02, \hFF}

ModeTestCase(low, high, at, regs) ==
    [pc |-> at, a |-> regs.a, x |-> regs.x, y |-> regs.y, s |-> regs.s,
     p |-> regs.p, penalty |-> TRUE,
     ram |-> ProgramRam(at, <<low, high>>)]

ModeTestCases ==
    {ModeTestCase(low, high, at, regs) :
        low \in ModeOperandLow, high \in ModeOperandHigh, at \in ModePcs,
        regs \in SeedRegisters}

InitModes == InitFrom(ModeTestCases)

\* One call of IND().
INDCall ==
    /\ steps < MaxModeCalls
    /\ \E r \in {IND(Cpu)} :
        /\ SetCpu(r.cpu)
        /\ last' = [op |-> "IND", pre |-> Cpu, address |-> r.address]
    /\ steps' = steps + 1

\* One call of REL().
RELCall ==
    /\ steps < MaxModeCalls
    /\ \E r \in {REL(Cpu)} :
        /\ SetCpu(r.cpu)
        /\ last' = [op |-> "REL", pre |-> Cpu, address |-> r.address]
    /\ steps' = steps + 1

NextModes == INDCall \/ RELCall

SpecModes == InitModes /\ [][NextModes]_vars

(***************************************************************************)
(* Properties.  They read the state and, through last.pre, the CPU before  *)
(* the operation that produced it; the expected values are computed here   *)
(* from the operand bytes and registers, not by the operators above.       *)
(***************************************************************************)
\* Bit `mask` (a power of two) of the byte v.
FlagBit(v, mask) == (v \div mask) % 2 = 1

HighByte(w) == w \div 256

Ticked == last.op = "Tick"

\* The opcode and the operand bytes of the instruction the last Tick fetched.
PreOpcode == BusRead(last.pre.mem, last.pre.pc)
PreOperand1 == BusRead(last.pre.mem, U16(last.pre.pc + 1))
PreOperand2 == BusRead(last.pre.mem, U16(last.pre.pc + 2))
PreEntry == opcodeTable[PreOpcode]

\* The last operation was a Tick that dispatched an implemented opcode.
Dispatched == Ticked /\ PreEntry.instructionMethod # "nullptr"

\* The last operation was a Tick on an opcode with null handlers.
BadOpcode == Ticked /\ PreEntry.instructionMethod = "nullptr"

\* C1: After Reset from any prior CPU state and any memory contents, A = 0,
\* X = 0, Y = 0, S = 0xFD, P = 0x20, cycles = 0 and
\* PC = (mem[0xFFFD] << 8) | mem[0xFFFC]; Reset writes no memory.
C1_ResetState ==
    last.op = "Reset" =>
        /\ a = 0
        /\ x = 0
        /\ y = 0
        /\ s = 253
        /\ p = 32
        /\ cycles = 0
        /\ pc = 256 * BusRead(last.pre.mem, 65533) + BusRead(last.pre.mem, 65532)
        /\ mem = last.pre.mem

\* C1 witness: Reset after a Tick of STA $FFF0,X (X = 0x0D) that stored
\* A = 0x80 into the vector's high byte; the registers and the cycle counter
\* were non-zero before and PC is loaded from the rewritten vector.
C1_Witness ==
    /\ last.op = "Reset"
    /\ last.pre.a = 128
    /\ last.pre.x = 13
    /\ last.pre.cycles = 5
    /\ last.pre.p # 32
    /\ BusRead(mem, 65533) = 128
    /\ pc = 128 * 256 + InitialRam(65532)
    /\ a = 0
    /\ cycles = 0

\* The page-cross penalty the claim C2 predicts for the dispatched opcode:
\* 1 iff the mode is ABSX, ABSY or INDY, the entry honours the penalty and the
\* high byte of the indexed address differs from that of the base address.
ExpectedPenalty ==
    LET mode == PreEntry.addressingModeMethod
        base == IF mode = "INDY"
                THEN 256 * BusRead(last.pre.mem, (PreOperand1 + 1) % 256)
                     + BusRead(last.pre.mem, PreOperand1)
                ELSE 256 * PreOperand2 + PreOperand1
        index == IF mode = "ABSX" THEN last.pre.x ELSE last.pre.y
        indexed == (base + index) % 65536
    IN  IF /\ mode \in {"ABSX", "ABSY", "INDY"}
           /\ PreEntry.pageCrossPenalty
           /\ HighByte(indexed) # HighByte(base)
        THEN 1
        ELSE 0

\* C2: a Tick that dispatches an implemented opcode increases cycles by
\* exactly baseCycles + p, p as in ExpectedPenalty; LDA $20F0,X with X = 0x20
\* reads 0x2110 and costs 5 cycles.
C2_CycleDelta ==
    Dispatched =>
        /\ cycles = last.pre.cycles + PreEntry.cycles + ExpectedPenalty
        /\ (/\ PreOpcode = 189
            /\ PreOperand1 = 240
            /\ PreOperand2 = 32
            /\ last.pre.x = 32)
           => /\ cycles = last.pre.cycles + 5
              /\ a = BusRead(last.pre.mem, 8464)

\* C2 witness: LDA $20F0,X with X = 0x20 was executed: A holds the byte at
\* 0x2110 and the Tick cost 4 + 1 cycles.
C2_Witness ==
    /\ Dispatched
    /\ PreOpcode = 189
    /\ PreOperand1 = 240
    /\ PreOperand2 = 32
    /\ last.pre.x = 32
    /\ last.pre.cycles = 0
    /\ cycles = 5
    /\ a = InitialRam(8464)
    /\ pc = U16(last.pre.pc + 3)

\* C3: every STA, STX, STY, INC and DEC opcode costs exactly its base cycle
\* count, page crossed or not; STA $20F0,X with X = 0x20 writes A to 0x2110
\* and costs 5 cycles.
C3_StoresPayNoPenalty ==
    (Dispatched /\ PreEntry.instructionMethod \in {"STA", "STX", "STY", "INC", "DEC"})
        => /\ cycles = last.pre.cycles + PreEntry.cycles
           /\ (/\ PreOpcode = 157
               /\ PreOperand1 = 240
               /\ PreOperand2 = 32
               /\ last.pre.x = 32)
              => /\ cycles = last.pre.cycles + 5
                 /\ BusRead(mem, 8464) = last.pre.a

\* C3 witness: STA $20F0,X with X = 0x20 (the indexed address is in the next
\* page) has stored A = 0x42 at 0x2110 for 5 cycles.
C3_Witness ==
    /\ Dispatched
    /\ PreOpcode = 157
    /\ PreOperand1 = 240
    /\ PreOperand2 = 32
    /\ last.pre.x = 32
    /\ last.pre.a = 66
    /\ BusRead(last.pre.mem, 8464) # 66
    /\ BusRead(mem, 8464) = 66
    /\ last.pre.cycles = 0
    /\ cycles = 5

\* C4: a Tick on an opcode with null handlers executes nothing: cycles, A, X,
\* Y, S, P and memory are unchanged and PC advances by exactly 1.
C4_BadOpcodeOnlyAdvancesPc ==
    BadOpcode =>
        /\ cycles = last.pre.cycles
        /\ a = last.pre.a
        /\ x = last.pre.x
        /\ y = last.pre.y
        /\ s = last.pre.s
        /\ p = last.pre.p
        /\ mem = last.pre.mem
        /\ pc = (last.pre.pc + 1) % 65536

\* C4 witness: the second Tick in a row on a bad opcode (NOP 0xEA is not in
\* the table), so the CPU went on after the first one.
C4_Witness ==
    /\ BadOpcode
    /\ steps = 2
    /\ PreOpcode # 234
    /\ BusRead(mem, U16(pc - 2)) = 234
    /\ last.pre.pc = U16(pc - 1)
    /\ cycles = 0

\* C5: in every state reachable from Reset by Ticks alone, bit 5 (Unused) of
\* P is 1.
C5_UnusedBitStaysSet == FlagBit(p, 32)

\* C5 witness: two Ticks after Reset, an ADC has rewritten Carry, Overflow,
\* Zero and Negative (Carry and Overflow are now set) and the Unused bit is
\* still set.
C5_Witness ==
    /\ steps = 2
    /\ Dispatched
    /\ PreEntry.instructionMethod = "ADC"
    /\ FlagBit(p, 1)
    /\ FlagBit(p, 64)
    /\ FlagBit(p, 32)
    /\ cycles = 4

\* C6: over any sequence of Ticks the cycle counter never decreases, and one
\* Tick changes it by at most 7 + 1.
C6_CyclesMonotone ==
    Ticked =>
        /\ cycles >= last.pre.cycles
        /\ cycles - last.pre.cycles <= 8

\* C6 witness: a Tick that paid the page-cross increment inside INDY on top
\* of the base cycles, after an earlier Tick had already advanced the counter.
C6_Witness ==
    /\ Ticked
    /\ PreOpcode = 177
    /\ last.pre.cycles > 0
    /\ cycles = last.pre.cycles + 6

\* The number of opcodes whose entry names the instruction handler m.
MnemonicCount(m) ==
    Cardinality({opcode \in 0 .. 255 : opcodeTable[opcode].instructionMethod = m})

\* The per-mnemonic breakdown of the claim C7, and: an entry has either both
\* handlers or none.
TableBreakdown ==
    /\ MnemonicCount("LDA") = 8
    /\ MnemonicCount("LDX") = 5
    /\ MnemonicCount("LDY") = 5
    /\ MnemonicCount("STA") = 7
    /\ MnemonicCount("STX") = 3
    /\ MnemonicCount("STY") = 3
    /\ MnemonicCount("ADC") = 8
    /\ MnemonicCount("SBC") = 8
    /\ MnemonicCount("INC") = 4
    /\ MnemonicCount("DEC") = 4
    /\ MnemonicCount("INX") = 1
    /\ MnemonicCount("INY") = 1
    /\ MnemonicCount("DEX") = 1
    /\ MnemonicCount("DEY") = 1
    /\ \A opcode \in 0 .. 255 :
          (opcodeTable[opcode].instructionMethod = "nullptr")
              <=> (opcodeTable[opcode].addressingModeMethod = "nullptr")

\* A Tick that spent cycles went through an entry with non-null handlers.
SpentCyclesOnlyIfInTable ==
    (Ticked /\ cycles # last.pre.cycles)
        => opcodeTable[PreOpcode].instructionMethod # "nullptr"

\* C7 as stated: the table has exactly 58 opcodes with non-null handlers, in
\* the breakdown LDA x8 ... DEY, and every other opcode has null handlers.
C7_Original ==
    /\ TableBreakdown
    /\ 256 - MnemonicCount("nullptr") = 58
    /\ SpentCyclesOnlyIfInTable

\* C7 as amended: the table has exactly 59 opcodes with non-null handlers
\* (the breakdown LDA x8, LDX x5, LDY x5, STA x7, STX x3, STY x3, ADC x8,
\* SBC x8, INC x4, DEC x4, INX, INY, DEX, DEY adds up to 59), and each of the
\* other 197 opcode bytes has null handlers.
C7_TableHas59 ==
    /\ TableBreakdown
    /\ 256 - MnemonicCount("nullptr") = 59
    /\ MnemonicCount("nullptr") = 197
    /\ SpentCyclesOnlyIfInTable

\* C7 witness: a Tick has dispatched through the last entry the constructor
\* assigns (DEY, 0x88): Y was decremented for 2 cycles.
C7_Witness ==
    /\ Dispatched
    /\ PreOpcode = 136
    /\ y = (last.pre.y + 255) % 256
    /\ cycles = last.pre.cycles + 2

\* C8: ADC with operand v, carry-in c and accumulator A sets, for
\* sum = A + v + c:  A' = sum mod 256, Carry' = (sum > 0xFF),
\* Zero' = (sum mod 256 = 0), Negative' = bit 7 of sum, Overflow' = (A and v
\* have equal bit 7 and sum has a different bit 7 from A).
C8_AdcResult ==
    (Dispatched /\ PreOpcode = 105) =>
        LET acc == last.pre.a
            v == PreOperand1
            c == IF FlagBit(last.pre.p, 1) THEN 1 ELSE 0
            sum == acc + v + c
        IN  /\ a = sum % 256
            /\ FlagBit(p, 1) <=> (sum > 255)
            /\ FlagBit(p, 2) <=> (sum % 256 = 0)
            /\ FlagBit(p, 128) <=> FlagBit(sum, 128)
            /\ FlagBit(p, 64) <=> (/\ FlagBit(acc, 128) <=> FlagBit(v, 128)
                                   /\ ~(FlagBit(sum, 128) <=> FlagBit(acc, 128)))

\* C8 witness: A = 0x7F, Carry = 0, v = 0x01 gave A = 0x80 with Carry = 0,
\* Zero = 0, Overflow = 1, Negative = 1 (Zero was stale before).
C8_Witness ==
    /\ Dispatched
    /\ PreOpcode = 105
    /\ last.pre.a = 127
    /\ PreOperand1 = 1
    /\ last.pre.p = 234
    /\ a = 128
    /\ ~FlagBit(p, 1)
    /\ ~FlagBit(p, 2)
    /\ FlagBit(p, 64)
    /\ FlagBit(p, 128)
    /\ cycles = 2

Nzcv(v) == <<FlagBit(v, 128), FlagBit(v, 64), FlagBit(v, 2), FlagBit(v, 1)>>

\* The CPU a Tick yields from the CPU before the last Tick, with the
\* instruction there replaced by ADC # of the complement of its operand.
AdcOfComplement ==
    TickCpu(WriteRam(last.pre, << <<last.pre.pc, 105>>,
                                  <<U16(last.pre.pc + 1), 255 - PreOperand1>> >>))

\* C10: for every A and operand v, SBC of v with Carry = 1 produces the same A
\* and the same N, Z, C and V flags as ADC of (v XOR 0xFF) with Carry = 1.
C10_SbcIsAdcOfComplement ==
    (Dispatched /\ PreOpcode = 233 /\ FlagBit(last.pre.p, 1)) =>
        /\ a = AdcOfComplement.a
        /\ Nzcv(p) = Nzcv(AdcOfComplement.p)

\* C10 witness: SBC #$01 from A = 0x80 with Carry = 1 gave 0x7F with Overflow
\* and Carry set, as ADC #$FE does.
C10_Witness ==
    /\ Dispatched
    /\ PreOpcode = 233
    /\ last.pre.p = 33
    /\ last.pre.a = 128
    /\ PreOperand1 = 1
    /\ a = 127
    /\ Nzcv(p) = <<FALSE, TRUE, FALSE, TRUE>>
    /\ AdcOfComplement.a = 127

\* The CPU a Tick yields from the CPU before the last Tick with only bit 3
\* (Decimal) of its status register inverted.
DecimalTwin ==
    TickCpu([last.pre EXCEPT !.p = IF FlagBit(last.pre.p, 8)
                                   THEN last.pre.p - 8
                                   ELSE last.pre.p + 8])

\* C11: the Decimal flag does not influence ADC or SBC.  Two CPUs that differ
\* only in bit 3 of P have, after the same ADC or SBC Tick, equal A, equal N, V,
\* Z and C, equal PC and equal cycles, and each keeps its own Decimal bit.
C11_DecimalIgnored ==
    (Dispatched /\ PreEntry.instructionMethod \in {"ADC", "SBC"}) =>
        \E twin \in {DecimalTwin} :
            /\ a = twin.a
            /\ Nzcv(p) = Nzcv(twin.p)
            /\ pc = twin.pc
            /\ cycles = twin.cycles
            /\ FlagBit(p, 8) = FlagBit(last.pre.p, 8)
            /\ FlagBit(twin.p, 8) = ~FlagBit(last.pre.p, 8)

\* C11 witness: ADC #$01 from A = 0x09 with Carry and Decimal set gave the
\* binary sum 0x0B, Decimal still set, and so did the CPU with Decimal clear.
C11_Witness ==
    /\ Dispatched
    /\ PreOpcode = 105
    /\ last.pre.p = 235
    /\ last.pre.a = 9
    /\ PreOperand1 = 1
    /\ a = 11
    /\ FlagBit(p, 8)
    /\ DecimalTwin.a = 11
    /\ ~FlagBit(DecimalTwin.p, 8)

\* The effective address of the instruction at c.pc, from its operand bytes,
\* the index registers and the bytes of zero page, by the rules of the
\* addressing modes' table (little-endian operands and pointers, zero-page
\* arithmetic modulo 256, absolute arithmetic modulo 65536).
OperandAddress(c) ==
    LET mode == opcodeTable[BusRead(c.mem, c.pc)].addressingModeMethod
        operand1 == BusRead(c.mem, (c.pc + 1) % 65536)
        operand2 == BusRead(c.mem, (c.pc + 2) % 65536)
        pointer(z) == BusRead(c.mem, z) + 256 * BusRead(c.mem, (z + 1) % 256)
    IN  CASE mode = "IMM" -> (c.pc + 1) % 65536
          [] mode = "ZPG" -> operand1
          [] mode = "ZPGX" -> (operand1 + c.x) % 256
          [] mode = "ZPGY" -> (operand1 + c.y) % 256
          [] mode = "ABS" -> operand1 + 256 * operand2
          [] mode = "ABSX" -> (operand1 + 256 * operand2 + c.x) % 65536
          [] mode = "ABSY" -> (operand1 + 256 * operand2 + c.y) % 65536
          [] mode = "INDX" -> pointer((operand1 + c.x) % 256)
          [] mode = "INDY" -> (pointer(operand1) + c.y) % 65536

\* The addresses written before or by the last operation; every other
\* address still holds the byte the memory had at start.
Written == (DOMAIN mem) \cup (DOMAIN last.pre.mem)

\* The bits of P other than Zero and Negative.
OtherThanZN == {1, 4, 8, 16, 32, 64}

\* C12: for every load opcode (LDA, LDX, LDY in any mode of the table) one
\* Tick sets the target register to the byte at the effective address, sets
\* Zero iff that byte is 0 and Negative iff its bit 7 is set, and leaves the
\* other two of A, X, Y, the stack pointer, the other bits of P and all of
\* memory unchanged; LDA Immediate advances PC by 2 and adds 2 cycles.
C12_LoadRegister ==
    (Dispatched /\ PreEntry.instructionMethod \in {"LDA", "LDX", "LDY"}) =>
        LET byte == BusRead(last.pre.mem, OperandAddress(last.pre))
            target == CASE PreEntry.instructionMethod = "LDA" -> "a"
                        [] PreEntry.instructionMethod = "LDX" -> "x"
                        [] PreEntry.instructionMethod = "LDY" -> "y"
        IN  /\ Cpu[target] = byte
            /\ FlagBit(p, 2) <=> (byte = 0)
            /\ FlagBit(p, 128) <=> (byte >= 128)
            /\ \A reg \in {"a", "x", "y"} \ {target} : Cpu[reg] = last.pre[reg]
            /\ s = last.pre.s
            /\ \A bit \in OtherThanZN : FlagBit(p, bit) = FlagBit(last.pre.p, bit)
            /\ \A address \in Written :
                   BusRead(mem, address) = BusRead(last.pre.mem, address)
            /\ (PreOpcode = \hA9) =>
                   /\ pc = (last.pre.pc + 2) % 65536
                   /\ cycles = last.pre.cycles + 2

\* C12 witness: LDX $F0,Y with Y = 1 loaded the byte at $00F1 (0xF1) into X:
\* Negative set, Zero clear, A and Y as before.
C12_Witness ==
    /\ Dispatched
    /\ PreOpcode = \hB6
    /\ PreOperand1 = \hF0
    /\ last.pre.y = 1
    /\ last.pre.x = \h20
    /\ x = \hF1
    /\ FlagBit(p, 128)
    /\ ~FlagBit(p, 2)
    /\ a = last.pre.a
    /\ y = 1

\* C13: for every store opcode (STA, STX, STY in any mode of the table) one
\* Tick writes the source register to the effective address and changes
\* nothing else besides PC and cycles: P is unchanged bit for bit, A, X, Y and
\* S are unchanged, and every other memory byte keeps its value.
C13_StoreRegister ==
    (Dispatched /\ PreEntry.instructionMethod \in {"STA", "STX", "STY"}) =>
        LET source == CASE PreEntry.instructionMethod = "STA" -> "a"
                        [] PreEntry.instructionMethod = "STX" -> "x"
                        [] PreEntry.instructionMethod = "STY" -> "y"
        IN  /\ BusRead(mem, OperandAddress(last.pre)) = last.pre[source]
            /\ p = last.pre.p
            /\ a = last.pre.a
            /\ x = last.pre.x
            /\ y = last.pre.y
            /\ s = last.pre.s
            /\ \A address \in Written \ {OperandAddress(last.pre)} :
                   BusRead(mem, address) = BusRead(last.pre.mem, address)

\* C13 witness: STY $FF,X at $8000 with X = 1 and Y = 0x20 wrote 0x20 to
\* $0000 (which held 0x00); P is 0xDF as before and the instruction's own
\* bytes are as before.
C13_Witness ==
    /\ Dispatched
    /\ PreOpcode = \h94
    /\ PreOperand1 = \hFF
    /\ last.pre.pc = \h8000
    /\ last.pre.x = 1
    /\ last.pre.y = \h20
    /\ last.pre.p = \hDF
    /\ BusRead(last.pre.mem, \h0000) = \h00
    /\ BusRead(mem, \h0000) = \h20
    /\ p = \hDF
    /\ BusRead(mem, \h8000) = \h94
    /\ pc = \h8002

\* The statement of C14 as written, mask 0 included: after SetFlags(m),
\* IsFlagSet(m) is true, and after ClearFlags(m), IsFlagSet(m) is false.
C14_Original ==
    /\ (last.op = "SetFlags") => IsFlagSet(Cpu, last.flag)
    /\ (last.op = "ClearFlags") => ~IsFlagSet(Cpu, last.flag)

\* C14: for any status value P and any mask m in 0..255, IsFlagSet(m) is true
\* after SetFlags(m); for any mask m in 1..255, IsFlagSet(m) is false after
\* ClearFlags(m).  (For m = 0, IsFlagSet(0) is true after either call.)
C14_SetThenClearQueried ==
    /\ (last.op = "SetFlags") => IsFlagSet(Cpu, last.flag)
    /\ (last.op = "ClearFlags" /\ last.flag # 0) => ~IsFlagSet(Cpu, last.flag)
    /\ (last.op = "ClearFlags" /\ last.flag = 0) => IsFlagSet(Cpu, last.flag)

\* C14 witness: ClearFlags(Carry | Zero) on P = 0xE3 left 0xE0, where
\* IsFlagSet(Carry | Zero) is false although other bits are still set.
C14_Witness ==
    /\ last.op = "ClearFlags"
    /\ last.flag = \h03
    /\ last.pre.p = \hE3
    /\ p = \hE0
    /\ ~IsFlagSet(Cpu, \h03)

\* The eight bits of a byte, as masks.
Bits == {1, 2, 4, 8, 16, 32, 64, 128}

\* C15: SetFlags(m) changes P to exactly P OR m and ClearFlags(m) to exactly
\* P AND NOT m, for single-bit and multi-bit masks alike: a bit of the mask is
\* set (cleared), the Unused bit included, and a bit outside the mask is never
\* altered.
C15_SetAndClearExact ==
    /\ (last.op = "SetFlags") =>
           \A bit \in Bits :
               FlagBit(p, bit) <=> (FlagBit(last.pre.p, bit) \/ FlagBit(last.flag, bit))
    /\ (last.op = "ClearFlags") =>
           \A bit \in Bits :
               FlagBit(p, bit) <=> (FlagBit(last.pre.p, bit) /\ ~FlagBit(last.flag, bit))
    /\ (last.op \in {"SetFlags", "ClearFlags"}) => p \in Byte

\* C15 witness: ClearFlags of Carry, Zero, InterruptDisable, Decimal, Break
\* and Unused at once on P = 0xBF left 0x80: the six bits are cleared, Unused
\* among them, and Negative outside the mask is kept.
C15_Witness ==
    /\ last.op = "ClearFlags"
    /\ last.flag = \h3F
    /\ last.pre.p = \hBF
    /\ p = \h80

\* C16: for every byte v and every prior P, SetZeroAndNegativeFlags(v) leaves
\* Zero set iff v = 0 and Negative set iff bit 7 of v is set, and the other
\* six bits of P unchanged.
C16_ZeroAndNegativeOnly ==
    (last.op = "SetZeroAndNegativeFlags") =>
        /\ FlagBit(p, 2) <=> (last.value = 0)
        /\ FlagBit(p, 128) <=> (last.value >= 128)
        /\ \A bit \in OtherThanZN : FlagBit(p, bit) = FlagBit(last.pre.p, bit)

\* C16 witness: SetZeroAndNegativeFlags(0x01) on P = 0xE3 (Negative and Zero
\* stale) left 0x61: both cleared, the other six bits as before.
C16_Witness ==
    /\ last.op = "SetZeroAndNegativeFlags"
    /\ last.value = \h01
    /\ last.pre.p = \hE3
    /\ p = \h61

\* Two Ticks in a row have happened: last.before is the CPU before the first
\* of them, last.pre the CPU between them.
TickedTwice == Ticked /\ steps >= 2

\* The table's entry for the instruction at c.pc.
EntryAt(c) == opcodeTable[BusRead(c.mem, c.pc)]

\* C17: an INC and then a DEC executed on the same effective address restore
\* the memory byte b to its original value (b = 0xFF passes through 0x00);
\* afterwards Zero and Negative are what SetZeroAndNegativeFlags(b) gives and
\* the other bits of P are as before the INC.
C17_IncThenDec ==
    (/\ TickedTwice
     /\ EntryAt(last.before).instructionMethod = "INC"
     /\ EntryAt(last.pre).instructionMethod = "DEC"
     /\ OperandAddress(last.before) = OperandAddress(last.pre)) =>
        LET b == BusRead(last.before.mem, OperandAddress(last.before))
        IN  /\ BusRead(last.pre.mem, OperandAddress(last.before)) = (b + 1) % 256
            /\ BusRead(mem, OperandAddress(last.before)) = b
            /\ FlagBit(p, 2) <=> (b = 0)
            /\ FlagBit(p, 128) <=> (b >= 128)
            /\ \A bit \in OtherThanZN : FlagBit(p, bit) = FlagBit(last.before.p, bit)

\* C17 witness: INC $FF then DEC $FF on the byte 0xFF: 0x00 with Zero set in
\* between, 0xFF with Negative set and Zero clear afterwards.
C17_Witness ==
    /\ TickedTwice
    /\ BusRead(last.before.mem, last.before.pc) = \hE6
    /\ BusRead(last.pre.mem, last.pre.pc) = \hC6
    /\ OperandAddress(last.before) = \h00FF
    /\ OperandAddress(last.pre) = \h00FF
    /\ BusRead(last.before.mem, \h00FF) = \hFF
    /\ BusRead(last.pre.mem, \h00FF) = \h00
    /\ FlagBit(last.pre.p, 2)
    /\ BusRead(mem, \h00FF) = \hFF
    /\ FlagBit(p, 128)
    /\ ~FlagBit(p, 2)

\* The number of bytes of the instruction at c.pc.
LengthAt(c) ==
    IF EntryAt(c).addressingModeMethod \in {"ABS", "ABSX", "ABSY"} THEN 3 ELSE 2

\* The addresses of the bytes of the instruction that follows the one at c.pc
\* (of the same length).
NextInstructionBytes(c) ==
    {(c.pc + LengthAt(c) + i) % 65536 : i \in 0 .. LengthAt(c) - 1}

\* The zero-page addresses of the pointer an indirect instruction at c.pc
\* reads; none in the other modes.
PointerBytes(c) ==
    LET operand1 == BusRead(c.mem, (c.pc + 1) % 65536)
        z == CASE EntryAt(c).addressingModeMethod = "INDX" -> (operand1 + c.x) % 256
               [] EntryAt(c).addressingModeMethod = "INDY" -> operand1
               [] OTHER -> 0
    IN  IF EntryAt(c).addressingModeMethod \in {"INDX", "INDY"}
        THEN {z, (z + 1) % 256}
        ELSE {}

\* Memory at c.pc holds STA and, immediately after it, LDA in the same
\* addressing mode with the same operand bytes.
StaThenLda(c) ==
    LET next == (c.pc + LengthAt(c)) % 65536
        second == opcodeTable[BusRead(c.mem, next)]
    IN  /\ EntryAt(c).instructionMethod = "STA"
        /\ second.instructionMethod = "LDA"
        /\ second.addressingModeMethod = EntryAt(c).addressingModeMethod
        /\ \A i \in 1 .. LengthAt(c) - 1 :
               BusRead(c.mem, (next + i) % 65536) = BusRead(c.mem, (c.pc + i) % 65536)

\* A is what it was before the STA, with Zero and Negative set from it.
AccumulatorRestored ==
    /\ a = last.before.a
    /\ FlagBit(p, 2) <=> (last.before.a = 0)
    /\ FlagBit(p, 128) <=> (last.before.a >= 128)

\* The statement of C18 as written: for every A, every address and every
\* shared mode, STA addr then LDA addr leaves A equal to its value before the
\* STA, with Zero and Negative set from it.
C18_Original == (TickedTwice /\ StaThenLda(last.before)) => AccumulatorRestored

\* C18: STA addr then LDA addr (two consecutive Ticks, the second instruction
\* immediately after the first in memory, same mode and operand bytes) leaves
\* A equal to its value before the STA, Zero set iff A = 0 and Negative set
\* iff bit 7 of A is set, provided the STA alters no byte of the LDA
\* instruction and, in the (Indirect,X) and (Indirect),Y modes, no byte of the
\* zero-page pointer.
C18_StoreThenLoad ==
    (/\ TickedTwice
     /\ StaThenLda(last.before)
     /\ \A address \in NextInstructionBytes(last.before) \cup PointerBytes(last.before) :
            BusRead(last.pre.mem, address) = BusRead(last.before.mem, address)) =>
        /\ AccumulatorRestored
        /\ BusRead(mem, OperandAddress(last.before)) = last.before.a

\* C18 witness: STA $20F0,Y then LDA $20F0,Y with Y = 0x20 and A = 0x42: the
\* byte at $2110 became 0x42, A is 0x42 and the stale Negative and Zero of
\* P = 0xDF are cleared.
C18_Witness ==
    /\ TickedTwice
    /\ BusRead(last.before.mem, last.before.pc) = \h99
    /\ BusRead(last.pre.mem, last.pre.pc) = \hB9
    /\ StaThenLda(last.before)
    /\ last.before.a = \h42
    /\ last.before.y = \h20
    /\ last.before.p = \hDF
    /\ BusRead(last.before.mem, \h2110) = \h73
    /\ BusRead(mem, \h2110) = \h42
    /\ a = \h42
    /\ p = \h5D

\* What the addressing-mode handler of the last Tick returned and the CPU it
\* left: Tick calls it after the opcode fetch, with the entry's page-cross
\* policy set.
Resolved ==
    CallAddressingMode(PreEntry.addressingModeMethod,
                       [last.pre EXCEPT
                           !.pc = (last.pre.pc + 1) % 65536,
                           !.currentPageCrossPenalty = PreEntry.pageCrossPenalty])

\* C19: the effective address of ZPG, ZPGX and ZPGY is always in
\* 0x0000..0x00FF: the operand for ZPG, (operand + X) mod 256 for ZPGX and
\* (operand + Y) mod 256 for ZPGY, so operand 0xFF with index 1 gives 0x0000
\* and never 0x0100; these modes never add a page-cross cycle.
C19_ZeroPageWraps ==
    (Dispatched /\ PreEntry.addressingModeMethod \in {"ZPG", "ZPGX", "ZPGY"}) =>
        LET index == CASE PreEntry.addressingModeMethod = "ZPG" -> 0
                       [] PreEntry.addressingModeMethod = "ZPGX" -> last.pre.x
                       [] PreEntry.addressingModeMethod = "ZPGY" -> last.pre.y
        IN  /\ Resolved.address \in 0 .. 255
            /\ Resolved.address = (PreOperand1 + index) % 256
            /\ (PreOperand1 = \hFF /\ index = 1) => Resolved.address = \h0000
            /\ Resolved.cpu.cycles = last.pre.cycles
            /\ cycles = last.pre.cycles + PreEntry.cycles
            /\ Resolved.cpu.pc = (last.pre.pc + 2) % 65536
            /\ (PreEntry.instructionMethod = "LDA") =>
                   a = BusRead(last.pre.mem, (PreOperand1 + index) % 256)

\* C19 witness: LDA $FF,X at $8000 with X = 1 resolved to $0000 and loaded the
\* byte there (0x00; $0100 holds 0x03) in 4 cycles.
C19_Witness ==
    /\ Dispatched
    /\ PreOpcode = \hB5
    /\ PreOperand1 = \hFF
    /\ last.pre.pc = \h8000
    /\ last.pre.x = 1
    /\ Resolved.address = \h0000
    /\ BusRead(last.pre.mem, \h0000) = \h00
    /\ BusRead(last.pre.mem, \h0100) = \h03
    /\ a = \h00
    /\ cycles = last.pre.cycles + 4

\* C20: INDX and INDY read both pointer bytes from zero page.  For INDX,
\* z = (operand + X) mod 256 and the address is mem[z] | mem[(z+1) mod 256] << 8;
\* for INDY, z = operand and the address is that pointer plus Y, mod 2^16.
\* With z = 0xFF the high byte comes from $0000, never $0100.  INDY's penalty
\* compares the final high byte with the pointer's high byte before Y was
\* added: the pointer $10FF with Y = 2 gives $1101 and, when the opcode
\* honours it, one more cycle.
C20_IndirectPointer ==
    (Dispatched /\ PreEntry.addressingModeMethod \in {"INDX", "INDY"}) =>
        LET indexed == PreEntry.addressingModeMethod = "INDX"
            z == IF indexed THEN (PreOperand1 + last.pre.x) % 256 ELSE PreOperand1
            low == BusRead(last.pre.mem, z)
            high == BusRead(last.pre.mem, (z + 1) % 256)
            pointer == low + 256 * high
            address == IF indexed THEN pointer ELSE (pointer + last.pre.y) % 65536
            penalty == IF /\ ~indexed
                          /\ PreEntry.pageCrossPenalty
                          /\ HighByte(address) # high
                       THEN 1 ELSE 0
        IN  /\ Resolved.address = address
            /\ Resolved.cpu.cycles = last.pre.cycles + penalty
            /\ cycles = last.pre.cycles + PreEntry.cycles + penalty
            /\ (~indexed /\ pointer = \h10FF /\ last.pre.y = \h02) =>
                   /\ Resolved.address = \h1101
                   /\ PreEntry.pageCrossPenalty => penalty = 1
            /\ (PreEntry.instructionMethod = "LDA") =>
                   a = BusRead(last.pre.mem, address)
            /\ (PreEntry.instructionMethod = "STA") =>
                   BusRead(mem, address) = last.pre.a

\* C20 witness: LDA ($FF),Y with Y = 2, the pointer's low byte 0xFF at $00FF
\* and its high byte 0x10 at $0000 (0x20 at $0100): the address is $1101, A
\* holds the byte there and the Tick cost 5 + 1 cycles.
C20_Witness ==
    /\ Dispatched
    /\ PreOpcode = \hB1
    /\ PreOperand1 = \hFF
    /\ last.pre.y = \h02
    /\ BusRead(last.pre.mem, \h00FF) = \hFF
    /\ BusRead(last.pre.mem, \h0000) = \h10
    /\ BusRead(last.pre.mem, \h0100) = \h20
    /\ Resolved.address = \h1101
    /\ a = BusRead(last.pre.mem, \h1101)
    /\ cycles = last.pre.cycles + 6

\* The two operand bytes at the program counter before the last call.
CallOperand1 == BusRead(last.pre.mem, last.pre.pc)

CallOperand2 == BusRead(last.pre.mem, (last.pre.pc + 1) % 65536)

\* C21: IND reproduces the indirect-JMP page-wrap bug.  For the pointer read
\* little-endian from the two operand bytes, the result's low byte is
\* mem[pointer] and its high byte is mem[pointer AND 0xFF00] when the pointer's
\* low byte is 0xFF and mem[pointer + 1] otherwise (pointer $02FF reads $02FF
\* and $0200, not $0300); IND advances PC by 2 and adds no cycles.
C21_IndirectPageWrap ==
    (last.op = "IND") =>
        LET pointer == CallOperand1 + 256 * CallOperand2
            low == BusRead(last.pre.mem, pointer)
            high == IF CallOperand1 = \hFF
                    THEN BusRead(last.pre.mem, 256 * CallOperand2)
                    ELSE BusRead(last.pre.mem, pointer + 1)
        IN  /\ last.address = low + 256 * high
            /\ (pointer = \h02FF) =>
                   last.address = BusRead(last.pre.mem, \h02FF)
                                  + 256 * BusRead(last.pre.mem, \h0200)
            /\ pc = (last.pre.pc + 2) % 65536
            /\ cycles = last.pre.cycles
            /\ Cpu = [last.pre EXCEPT !.pc = pc]

\* C21 witness: IND with the operand bytes FF 02 at $8000 returned $0605, the
\* bytes at $02FF (0x05) and $0200 (0x06); $0300 holds 0x09.
C21_Witness ==
    /\ last.op = "IND"
    /\ last.pre.pc = \h8000
    /\ CallOperand1 = \hFF
    /\ CallOperand2 = \h02
    /\ BusRead(last.pre.mem, \h02FF) = \h05
    /\ BusRead(last.pre.mem, \h0200) = \h06
    /\ BusRead(last.pre.mem, \h0300) = \h09
    /\ last.address = \h0605
    /\ pc = \h8002

\* The two's-complement value of a byte.
Signed(b) == IF b >= 128 THEN b - 256 ELSE b

\* C22: REL interprets the operand byte as a signed two's-complement offset
\* in -128 .. 127 (0x80 is -128, 0x7F is +127), returns (the address
\* immediately after the offset byte + offset) mod 2^16, and advances PC by
\* exactly 1.
C22_RelativeTarget ==
    (last.op = "REL") =>
        /\ Signed(CallOperand1) \in -128 .. 127
        /\ last.address = (last.pre.pc + 1 + Signed(CallOperand1)) % 65536
        /\ pc = (last.pre.pc + 1) % 65536

\* What REL returns: the offset is added to the address of the offset byte
\* itself (the sum is taken before _pc++), modulo 2^16; PC advances by 1 and
\* nothing else changes.
C22_RelativeFromOffsetByte ==
    (last.op = "REL") =>
        /\ last.address = (last.pre.pc + Signed(CallOperand1)) % 65536
        /\ pc = (last.pre.pc + 1) % 65536
        /\ Cpu = [last.pre EXCEPT !.pc = pc]

\* REL with the offset byte 0x7F at $8000 returned $807F (not $8080) and left
\* PC at $8001.
C22_Witness ==
    /\ last.op = "REL"
    /\ last.pre.pc = \h8000
    /\ CallOperand1 = \h7F
    /\ last.address = \h807F
    /\ pc = \h8001

\* The number of operand bytes of an addressing mode of the table.
OperandLength(mode) ==
    CASE mode = "IMP" -> 0
      [] mode \in {"IMM", "ZPG", "ZPGX", "ZPGY", "INDX", "INDY"} -> 1
      [] mode \in {"ABS", "ABSX", "ABSY"} -> 2

\* C23: one Tick of an implemented opcode advances PC by exactly 1 + n modulo
\* 2^16, n being the operand length of its addressing mode (0 for IMP; 1 for
\* IMM, ZPG, ZPGX, ZPGY, INDX, INDY; 2 for ABS, ABSX, ABSY), whatever the
\* instruction, the registers and whether a page is crossed; PC = 0xFFFF wraps
\* to 0x0000 during the fetch.
C23_PcAdvance ==
    Dispatched =>
        /\ pc = (last.pre.pc + 1 + OperandLength(PreEntry.addressingModeMethod)) % 65536
        /\ (last.pre.pc = \hFFFF) =>
               pc = OperandLength(PreEntry.addressingModeMethod)

\* C23 witness: LDA $20F0,X with X = 0x20 at $FFFF (operands at $0000 and
\* $0001) crossed a page, cost 5 cycles and left PC at $0002.
C23_Witness ==
    /\ Dispatched
    /\ PreOpcode = \hBD
    /\ last.pre.pc = \hFFFF
    /\ PreOperand1 = \hF0
    /\ PreOperand2 = \h20
    /\ last.pre.x = \h20
    /\ cycles = last.pre.cycles + 5
    /\ pc = \h0002

C25_TickKeepsStackAndControlBits ==
    /\ Ticked =>
           /\ s = last.pre.s
           /\ \A bit \in {4, 8, 16} : FlagBit(p, bit) = FlagBit(last.pre.p, bit)
    /\ s = \hFD
    /\ \A bit \in {4, 8, 16} : ~FlagBit(p, bit)

\* C25 witness: after LDA #$FF and DEY from Reset, S is still 0xFD and P is
\* 0xA0 (Negative and Unused only); A and Y are 0xFF.
C25_Witness ==
    /\ Ticked
    /\ steps = 2
    /\ PreOpcode = \h88
    /\ a = \hFF
    /\ y = \hFF
    /\ s = \hFD
    /\ p = \hA0
    /\ cycles = 4

=============================================================================
